---- MODULE Spec2Model ----
(***************************************************************************)
(* Model of crates/fj: Instance::process_model_with_args and its helpers   *)
(* init_logger and compute_tolerance (instance.rs).                        *)
(*                                                                         *)
(* One run of process_model_with_args is a sequence of steps; pc[i] is the *)
(* step instance i executes next.  Several instances live in one process   *)
(* and share only the process-wide tracing dispatcher (loggerSet).         *)
(*                                                                         *)
(* Scalar values are modelled on the uniform grid of multiples of the      *)
(* least positive Scalar; ScalarMAX stands for Scalar::MAX, the largest    *)
(* finite Scalar, scaled down to the top of the modelled range.  Scalar    *)
(* division rounds to the nearest grid value, ties to even (IEEE 754).     *)
(***************************************************************************)
EXTENDS Integers, Sequences, FiniteSets

\* ------------------------------------------------------------------ bounds

NumInstances == 2
MaxErrors == 2
MaxUserTol == 2
MaxSmall == 1
MaxBig == 2
MaxLen == 4
MaxChain == 3
MaxArgs == 3

\* ------------------------------------------------------- program constants

ScalarMAX == 1000000
ScalarZERO == 0
ToleranceDivisor == 1000
ScalarNaN == 2147483647

\* ------------------------------------------------------------------ values

Instances == 1 .. NumInstances

None == << >>
Some(x) == << x >>

Origin == << 0, 0, 0 >>

Coords == (0 .. MaxSmall) \cup { 2000 * k : k \in 1 .. MaxBig } \cup { ScalarMAX }

Points == { << x, y, z >> : x \in Coords, y \in Coords, z \in Coords }

Boxes ==
    { [min |-> Origin, max |-> p] : p \in Points }
        \cup { [min |-> << 1, 1, 1 >>, max |-> << 1, 1, 1 >>],
               [min |-> << 1, 0, 1 >>, max |-> << 2001, 0, 4001 >>] }

UserTolerances == 1 .. MaxUserTol

Paths == { "foo.step" }

ArgsSet ==
    [ export : { None } \cup { Some(p) : p \in Paths },
      tolerance : { None } \cup { Some(t) : t \in UserTolerances },
      ignore_validation : BOOLEAN ]

ArgsSmall ==
    { a \in ArgsSet : a.tolerance = Some(1) /\ ~a.ignore_validation }

ErrorIds == 1 .. MaxErrors

ExportCauses == { "io" }
ViewerCauses == { "event_loop" }

Ok == [variant |-> "Ok", errors |-> {}, cause |-> ""]
Pending == [variant |-> "Pending", errors |-> {}, cause |-> ""]
Err(v, es, c) == [variant |-> v, errors |-> es, cause |-> c]

\* ------------------------------------------------------------ pure helpers

\* Scalar / Scalar, rounded to nearest, ties to even
ScalarDiv(n, d) ==
    LET q == n \div d
        r == n % d
    IN  IF 2 * r < d THEN q
        ELSE IF 2 * r > d THEN q + 1
        ELSE IF q % 2 = 0 THEN q ELSE q + 1

\* Aabb::size(): max - min, component-wise
Size(aabb) == [ k \in 1 .. 3 |-> aabb.max[k] - aabb.min[k] ]

\* Tolerance::from_scalar: rejects every value that is not > 0, NaN included
from_scalar(s) ==
    IF s = ScalarNaN \/ s <= ScalarZERO
        THEN [variant |-> "Tolerance", value |-> 0]
        ELSE [variant |-> "Ok", value |-> s]

\* the for loop of compute_tolerance, from component k on
RECURSIVE ScanExtents(_, _, _, _)
ScanExtents(components, k, min_extent, found_nonzero) ==
    IF k > Len(components)
        THEN [min_extent |-> min_extent, found_nonzero |-> found_nonzero]
        ELSE LET extent == components[k]
             IN  IF extent > ScalarZERO /\ extent < min_extent
                     THEN ScanExtents(components, k + 1, extent, TRUE)
                     ELSE ScanExtents(components, k + 1, min_extent, found_nonzero)

\* compute_tolerance scanning the box before it looks at the override
compute_tolerance_aabb_first(aabb, user_defined) ==
    LET scan == ScanExtents(Size(aabb), 1, ScalarMAX, FALSE)
    IN  IF ~scan.found_nonzero
            THEN [variant |-> "EmptyModel", value |-> 0]
            ELSE IF user_defined # None
                THEN [variant |-> "Ok", value |-> user_defined[1]]
                ELSE from_scalar(ScalarDiv(scan.min_extent, ToleranceDivisor))

\* compute_tolerance wrapping the quotient without the fallible constructor
compute_tolerance_unchecked(aabb, user_defined) ==
    IF user_defined # None
        THEN [variant |-> "Ok", value |-> user_defined[1]]
        ELSE LET scan == ScanExtents(Size(aabb), 1, ScalarMAX, FALSE)
             IN  IF ~scan.found_nonzero
                     THEN [variant |-> "EmptyModel", value |-> 0]
                     ELSE [variant |-> "Ok",
                           value |-> ScalarDiv(scan.min_extent, ToleranceDivisor)]

compute_tolerance(aabb, user_defined) ==
    IF user_defined # None
        THEN [variant |-> "Ok", value |-> user_defined[1]]
        ELSE LET scan == ScanExtents(Size(aabb), 1, ScalarMAX, FALSE)
             IN  IF ~scan.found_nonzero
                     THEN [variant |-> "EmptyModel", value |-> 0]
                     ELSE from_scalar(ScalarDiv(scan.min_extent, ToleranceDivisor))

\* unwrap_or with a box of positive size as the default
UnwrapOrUnitBox(opt) ==
    IF opt = None THEN [min |-> Origin, max |-> << 2000, 2000, 2000 >>] ELSE opt[1]

\* model.aabb(..).unwrap_or(Aabb { min: origin, max: origin })
UnwrapOrOrigin(opt) ==
    IF opt = None THEN [min |-> Origin, max |-> Origin] ELSE opt[1]

\* init_logger returning every error of try_init to the caller
init_logger_propagate(outcome) == IF outcome = "Ok" THEN "Ok" ELSE "Err"

\* init_logger: the result of try_init is bound to `_` and Ok(()) is returned
init_logger(outcome) == "Ok"

\* validation.take_errors(): drains the accumulated errors, Err iff any
take_errors(errs) ==
    [ left |-> {},
      taken |-> errs,
      result |-> IF errs = {} THEN Ok ELSE Err("Validation", errs, "") ]

\* tri_mesh.all_triangles()
all_triangles(m) == m

\* ------------------------------------------------------ tolerance parsing

\* Text is a sequence of characters.  A parsed f64 is an integer count of
\* 1/FracScale, exact for every text of the modelled length; ScalarNaN
\* stands for NaN.

Digits == { "0", "1" }

DigitValue(c) == IF c = "1" THEN 1 ELSE 0

Chars == Digits \cup { ".", "-", "a", "b", "c", "N" }

Texts == UNION { [1 .. n -> Chars] : n \in 0 .. MaxLen }

FracScale == 10 ^ (MaxLen - 1)

\* ASCII lower case, on the modelled characters
Lower(t) == [ k \in 1 .. Len(t) |-> IF t[k] = "N" THEN "n" ELSE t[k] ]

\* consume decimal digits of t from position k on
RECURSIVE ScanDigits(_, _, _, _)
ScanDigits(t, k, mant, n) ==
    IF k <= Len(t) /\ t[k] \in Digits
        THEN ScanDigits(t, k + 1, 10 * mant + DigitValue(t[k]), n + 1)
        ELSE [pos |-> k, mant |-> mant, n |-> n]

\* f64::from_str: Sign? ( 'nan' | Digit+ | Digit+ '.' Digit* | Digit* '.' Digit+ ),
\* case-insensitive; inf and exponents need characters outside Chars
f64_from_str(t) ==
    LET signed == t # << >> /\ t[1] \in { "-", "+" }
        start == IF signed THEN 2 ELSE 1
        negative == signed /\ t[1] = "-"
        ip == ScanDigits(t, start, 0, 0)
        hasDot == ip.pos <= Len(t) /\ t[ip.pos] = "."
        fp == IF hasDot
                  THEN ScanDigits(t, ip.pos + 1, ip.mant, 0)
                  ELSE [pos |-> ip.pos, mant |-> ip.mant, n |-> 0]
        magnitude == fp.mant * (FracScale \div (10 ^ fp.n))
    IN  IF Lower(SubSeq(t, start, Len(t))) = << "n", "a", "n" >>
            THEN [ok |-> TRUE, value |-> ScalarNaN]
            ELSE IF fp.pos <= Len(t) \/ ip.n + fp.n = 0
                THEN [ok |-> FALSE, value |-> 0]
                ELSE [ok |-> TRUE,
                      value |-> IF negative THEN 0 - magnitude ELSE magnitude]

\* Scalar::from_f64: the f64 as a Scalar
Scalar_from_f64(x) == x

\* parse_tolerance with both failures reported as InvalidTolerance
parse_tolerance_one_error(text) ==
    LET f == f64_from_str(text)
    IN  IF ~f.ok
            THEN [variant |-> "InvalidTolerance", value |-> 0, stage |-> 1]
            ELSE LET r == from_scalar(Scalar_from_f64(f.value))
                 IN  IF r.variant = "Ok"
                         THEN [variant |-> "Ok", value |-> r.value, stage |-> 2]
                         ELSE [variant |-> "InvalidTolerance", value |-> 0, stage |-> 2]

\* parse_tolerance rejecting only the values <= 0 by a comparison of its own
parse_tolerance_compare(text) ==
    LET f == f64_from_str(text)
    IN  IF ~f.ok
            THEN [variant |-> "ParseTolerance", value |-> 0, stage |-> 1]
            ELSE IF Scalar_from_f64(f.value) <= ScalarZERO
                THEN [variant |-> "InvalidTolerance", value |-> 0, stage |-> 2]
                ELSE [variant |-> "Ok", value |-> Scalar_from_f64(f.value), stage |-> 2]

\* parse_tolerance: stage 1 is f64::from_str, stage 2 Tolerance::from_scalar
parse_tolerance(text) ==
    LET f == f64_from_str(text)
    IN  IF ~f.ok
            THEN [variant |-> "ParseTolerance", value |-> 0, stage |-> 1]
            ELSE LET r == from_scalar(Scalar_from_f64(f.value))
                 IN  IF r.variant = "Ok"
                         THEN [variant |-> "Ok", value |-> r.value, stage |-> 2]
                         ELSE [variant |-> "InvalidTolerance", value |-> 0, stage |-> 2]

\* --------------------------------------------------------- error reporting

\* An Error holds, for every variant but EmptyModel, an inner error: inner is
\* the message of that error followed by the messages of its causes.

Messages == { "m1", "m2" }

Chains == UNION { [1 .. n -> Messages] : n \in 1 .. MaxChain }

WrappingVariants == { "Tracing", "Display", "Export" }
TransparentVariants == { "Tolerance", "Validation" }

ErrorValues ==
    { [variant |-> v, inner |-> ch] :
          v \in WrappingVariants \cup TransparentVariants, ch \in Chains }
        \cup { [variant |-> "EmptyModel", inner |-> << >>] }

\* Display for Error: the #[error(..)] attributes
Message(e) ==
    CASE e.variant = "Tracing" -> "Failed to set up logger"
      [] e.variant = "Display" -> "Error displaying model"
      [] e.variant = "Export" -> "Error exporting model"
      [] e.variant = "EmptyModel" ->
             "The model is empty or has zero size; cannot compute tolerance"
      [] OTHER -> e.inner[1]

\* Error::source() and the sources after it: #[from] makes the inner error
\* the source, #[error(transparent)] forwards to the source of the inner error
SourceChain(e) ==
    CASE e.variant \in WrappingVariants -> e.inner
      [] e.variant \in TransparentVariants -> Tail(e.inner)
      [] OTHER -> << >>

MessageLine(e) == [kind |-> "message", idx |-> 0, text |-> Message(e)]
HeaderLine == [kind |-> "header", idx |-> 0, text |-> "Caused by:"]
CauseLine(i, m) == [kind |-> "cause", idx |-> i, text |-> m]

\* ------------------------------------------------------ command-line values

ExportFlags == { "--export", "-e" }
ToleranceFlags == { "--tolerance", "-t" }
IgnoreValidationFlags == { "--ignore-validation", "-i" }

ValueTokens == { "foo.step", "0.01", "0" }

\* words that start with a hyphen: the declared flags and an undeclared one
HyphenTokens ==
    ExportFlags \cup ToleranceFlags \cup IgnoreValidationFlags \cup { "--bogus" }

Tokens == HyphenTokens \cup ValueTokens

CommandLines == UNION { [1 .. n -> Tokens] : n \in 0 .. MaxArgs }

\* the characters of a value word
TokenText(tok) ==
    CASE tok = "0.01" -> << "0", ".", "0", "1" >>
      [] tok = "0" -> << "0" >>
      [] OTHER -> << "f", "o", "o", ".", "s", "t", "e", "p" >>

\* the word after position k is there and can be the value of an option
HasValue(line, k) == k + 1 <= Len(line) /\ line[k + 1] \notin HyphenTokens

\* an option or flag given a second time is refused or overrides the first,
\* depending on the action the argument parser gives it
RepeatPolicies == { "reject", "override" }

\* ------------------------------------------------------------------- state

VARIABLES
    loggerSet,       \* process-wide: a global default dispatcher is installed
    loggerSetCount,  \* number of times the global dispatcher was installed
    pc,              \* per instance: the next step of the run
    args,            \* per instance: the Args of the run
    errors,          \* per instance: core.layers.validation, accumulated errors
    tryInit,         \* per run: what try_init returned ("None" before the call)
    drained,         \* per run: the errors take_errors took
    bv,              \* per run: Some(what model.aabb returned), None before
    aabb,            \* per run: the local aabb
    tolerance,       \* per run: the result of compute_tolerance
    tri_mesh,        \* per run: the mesh triangulate returned
    exported,        \* per run: the arguments export::export was called with
    displayed,       \* per run: the mesh handed to the viewer
    outputRet,       \* per run: what the exporter or viewer returned
    result,          \* per run: the Result returned to the caller
    trace,           \* per run: the steps executed so far
    since,           \* per instance: what happened since its last run began
    input,           \* parse_tolerance: the text it is given
    parsed,          \* parse_tolerance: what it returned
    err,             \* Debug::fmt: the Error being rendered
    fout,            \* Debug::fmt: what was written to the formatter, in order
    fsource,         \* Debug::fmt: the local source, the chain still to walk
    fidx,            \* Debug::fmt: the local i
    fpc,             \* Debug::fmt: position in fmt
    argv,            \* Args::parse: the command-line arguments
    apos,            \* Args::parse: the next argument to look at
    cli,             \* Args::parse: the Args built so far
    cliResult        \* Args::parse: "Pending", "Ok" or the error

runVars ==
    << loggerSet, loggerSetCount, pc, args, errors, tryInit, drained, bv, aabb,
       tolerance, tri_mesh, exported, displayed, outputRet, result, trace,
       since >>

parseVars == << input, parsed >>

fmtVars == << err, fout, fsource, fidx, fpc >>

cliVars == << argv, apos, cli, cliResult >>

pureVars == << parseVars, fmtVars, cliVars >>

vars == << runVars, pureVars >>

NoTolerance == [variant |-> "Pending", value |-> 0]

DefaultArgs == [export |-> None, tolerance |-> None, ignore_validation |-> FALSE]

InitRun ==
    /\ loggerSet \in BOOLEAN
    /\ loggerSetCount = 0
    /\ pc = [i \in Instances |-> "Idle"]
    /\ args = [i \in Instances |-> DefaultArgs]
    /\ errors = [i \in Instances |-> {}]
    /\ tryInit = [i \in Instances |-> "None"]
    /\ drained = [i \in Instances |-> {}]
    /\ bv = [i \in Instances |-> None]
    /\ aabb = [i \in Instances |-> None]
    /\ tolerance = [i \in Instances |-> NoTolerance]
    /\ tri_mesh = [i \in Instances |-> None]
    /\ exported = [i \in Instances |-> None]
    /\ displayed = [i \in Instances |-> None]
    /\ outputRet = [i \in Instances |-> "None"]
    /\ result = [i \in Instances |-> Pending]
    /\ trace = [i \in Instances |-> << >>]
    /\ since = [i \in Instances |-> "none"]

NoParse == [variant |-> "Pending", value |-> 0, stage |-> 0]

NoError == [variant |-> "EmptyModel", inner |-> << >>]

InitParseIdle ==
    /\ input = << >>
    /\ parsed = NoParse

InitFmtIdle ==
    /\ err = NoError
    /\ fout = << >>
    /\ fsource = << >>
    /\ fidx = 0
    /\ fpc = "idle"

InitCliIdle ==
    /\ argv = << >>
    /\ apos = 1
    /\ cli = DefaultArgs
    /\ cliResult = "Pending"

Init == InitRun /\ InitParseIdle /\ InitFmtIdle /\ InitCliIdle

Terminal == { "Done", "Failed" }
Resting == { "Idle" } \cup Terminal

\* the run of instance i ends with error e
Fail(i, e) ==
    /\ pc' = [pc EXCEPT ![i] = "Failed"]
    /\ result' = [result EXCEPT ![i] = e]

Step(i, name) == trace' = [trace EXCEPT ![i] = Append(@, name)]

\* ----------------------------------------------------------------- actions

\* the geometry kernel records a validation error while a model is built
RecordValidationError(i, ids) ==
    /\ pc[i] \in Resting
    /\ \E e \in ids : errors' = [errors EXCEPT ![i] = @ \cup { e }]
    /\ since' = [since EXCEPT ![i] = "recorded"]
    /\ UNCHANGED << pureVars, loggerSet, loggerSetCount, pc, args, tryInit, drained, bv,
                    aabb, tolerance, tri_mesh, exported, displayed, outputRet, result,
                    trace >>

\* process_model_with_args is entered with args drawn from argsSet
Call(i, argsSet) ==
    /\ pc[i] \in Resting
    /\ \E a \in argsSet : args' = [args EXCEPT ![i] = a]
    /\ pc' = [pc EXCEPT ![i] = "LoggerInit"]
    /\ tryInit' = [tryInit EXCEPT ![i] = "None"]
    /\ drained' = [drained EXCEPT ![i] = {}]
    /\ bv' = [bv EXCEPT ![i] = None]
    /\ aabb' = [aabb EXCEPT ![i] = None]
    /\ tolerance' = [tolerance EXCEPT ![i] = NoTolerance]
    /\ tri_mesh' = [tri_mesh EXCEPT ![i] = None]
    /\ exported' = [exported EXCEPT ![i] = None]
    /\ displayed' = [displayed EXCEPT ![i] = None]
    /\ outputRet' = [outputRet EXCEPT ![i] = "None"]
    /\ result' = [result EXCEPT ![i] = Pending]
    /\ trace' = [trace EXCEPT ![i] = << >>]
    /\ since' = [since EXCEPT ![i] =
           IF pc[i] = "Failed" /\ result[i].variant = "Validation" /\ @ # "recorded"
               THEN "follows"
               ELSE "none"]
    /\ UNCHANGED << pureVars, loggerSet, loggerSetCount, errors >>

\* what try_init can return in the current process state: with a global
\* dispatcher installed it fails with "AlreadySet"; otherwise it installs one
\* and either succeeds or fails in a later stage of the set-up ("Failed")
TryInitOutcomes == IF loggerSet THEN { "AlreadySet" } ELSE { "Ok", "Failed" }

\* self.init_logger()?
LoggerInit(i) ==
    /\ pc[i] = "LoggerInit"
    /\ \E outcome \in TryInitOutcomes :
        /\ tryInit' = [tryInit EXCEPT ![i] = outcome]
        /\ IF loggerSet
               THEN UNCHANGED << loggerSet, loggerSetCount >>
               ELSE /\ loggerSet' = TRUE
                    /\ loggerSetCount' = loggerSetCount + 1
        /\ IF init_logger(outcome) = "Ok"
               THEN /\ pc' = [pc EXCEPT ![i] = "ValidationGate"]
                    /\ UNCHANGED result
               ELSE Fail(i, Err("Tracing", {}, outcome))
    /\ Step(i, "LoggerInit")
    /\ UNCHANGED << pureVars, since, args, errors, drained, bv, aabb, tolerance, tri_mesh,
                    exported, displayed, outputRet >>

\* the gate with the result of take_errors dropped instead of propagated
ValidationGate_unchecked(i) ==
    /\ pc[i] = "ValidationGate"
    /\ IF ~args[i].ignore_validation
           THEN LET r == take_errors(errors[i])
                IN  /\ errors' = [errors EXCEPT ![i] = r.left]
                    /\ drained' = [drained EXCEPT ![i] = r.taken]
           ELSE UNCHANGED << errors, drained >>
    /\ pc' = [pc EXCEPT ![i] = "BoundsQuery"]
    /\ Step(i, "ValidationGate")
    /\ UNCHANGED << pureVars, since, loggerSet, loggerSetCount, args, tryInit, bv, aabb,
                    tolerance, tri_mesh, exported, displayed, outputRet, result >>

\* the gate taking the errors first and looking at ignore_validation after
ValidationGate_always_drains(i) ==
    /\ pc[i] = "ValidationGate"
    /\ LET r == take_errors(errors[i])
       IN  /\ errors' = [errors EXCEPT ![i] = r.left]
           /\ drained' = [drained EXCEPT ![i] = r.taken]
           /\ IF args[i].ignore_validation \/ r.result = Ok
                  THEN /\ pc' = [pc EXCEPT ![i] = "BoundsQuery"]
                       /\ UNCHANGED result
                  ELSE Fail(i, r.result)
    /\ Step(i, "ValidationGate")
    /\ UNCHANGED << pureVars, since, loggerSet, loggerSetCount, args, tryInit, bv, aabb,
                    tolerance, tri_mesh, exported, displayed, outputRet >>

\* the gate looking at the accumulated errors without taking them
ValidationGate_peek(i) ==
    /\ pc[i] = "ValidationGate"
    /\ IF ~args[i].ignore_validation
           THEN LET r == take_errors(errors[i])
                IN  /\ drained' = [drained EXCEPT ![i] = r.taken]
                    /\ IF r.result = Ok
                           THEN /\ pc' = [pc EXCEPT ![i] = "BoundsQuery"]
                                /\ UNCHANGED result
                           ELSE Fail(i, r.result)
           ELSE /\ pc' = [pc EXCEPT ![i] = "BoundsQuery"]
                /\ UNCHANGED << drained, result >>
    /\ Step(i, "ValidationGate")
    /\ UNCHANGED << pureVars, since, errors, loggerSet, loggerSetCount, args, tryInit, bv,
                    aabb, tolerance, tri_mesh, exported, displayed, outputRet >>

\* if !args.ignore_validation { self.core.layers.validation.take_errors()?; }
ValidationGate(i) ==
    /\ pc[i] = "ValidationGate"
    /\ IF ~args[i].ignore_validation
           THEN LET r == take_errors(errors[i])
                IN  /\ errors' = [errors EXCEPT ![i] = r.left]
                    /\ drained' = [drained EXCEPT ![i] = r.taken]
                    /\ IF r.result = Ok
                           THEN /\ pc' = [pc EXCEPT ![i] = "BoundsQuery"]
                                /\ UNCHANGED result
                           ELSE Fail(i, r.result)
           ELSE /\ pc' = [pc EXCEPT ![i] = "BoundsQuery"]
                /\ UNCHANGED << errors, drained, result >>
    /\ Step(i, "ValidationGate")
    /\ UNCHANGED << pureVars, since, loggerSet, loggerSetCount, args, tryInit, bv, aabb,
                    tolerance, tri_mesh, exported, displayed, outputRet >>

\* let aabb = model.aabb(&self.core.layers.geometry).unwrap_or(..)
BoundsQuery(i, boxes) ==
    /\ pc[i] = "BoundsQuery"
    /\ \E b \in { None } \cup { Some(x) : x \in boxes } :
        /\ bv' = [bv EXCEPT ![i] = Some(b)]
        /\ aabb' = [aabb EXCEPT ![i] = Some(UnwrapOrOrigin(b))]
    /\ pc' = [pc EXCEPT ![i] = "ToleranceDerive"]
    /\ Step(i, "BoundsQuery")
    /\ UNCHANGED << pureVars, since, loggerSet, loggerSetCount, args, errors, tryInit, drained,
                    tolerance, tri_mesh, exported, displayed, outputRet, result >>

\* let tolerance = self.compute_tolerance(&aabb, args.tolerance)?
ToleranceDerive(i) ==
    /\ pc[i] = "ToleranceDerive"
    /\ LET r == compute_tolerance(aabb[i][1], args[i].tolerance)
       IN  /\ tolerance' = [tolerance EXCEPT ![i] = r]
           /\ IF r.variant = "Ok"
                  THEN /\ pc' = [pc EXCEPT ![i] = "Triangulate"]
                       /\ UNCHANGED result
                  ELSE Fail(i, Err(r.variant, {}, ""))
    /\ Step(i, "ToleranceDerive")
    /\ UNCHANGED << pureVars, since, loggerSet, loggerSetCount, args, errors, tryInit, drained,
                    bv, aabb, tri_mesh, exported, displayed, outputRet >>

\* let tri_mesh = (model, tolerance).triangulate(&mut self.core)
Triangulate(i) ==
    /\ pc[i] = "Triangulate"
    /\ tri_mesh' = [tri_mesh EXCEPT ![i] = Some([tolerance |-> tolerance[i].value])]
    /\ pc' = [pc EXCEPT ![i] = "Output"]
    /\ Step(i, "Triangulate")
    /\ UNCHANGED << pureVars, since, loggerSet, loggerSetCount, args, errors, tryInit, drained,
                    bv, aabb, tolerance, exported, displayed, outputRet, result >>

\* if let Some(path) = args.export { export::export(..)?; return Ok(()); }
Export(i) ==
    /\ pc[i] = "Output"
    /\ args[i].export # None
    /\ exported' = [exported EXCEPT ![i] =
           Some([triangles |-> all_triangles(tri_mesh[i][1]),
                 path |-> args[i].export[1]])]
    /\ \/ /\ outputRet' = [outputRet EXCEPT ![i] = "Ok"]
          /\ pc' = [pc EXCEPT ![i] = "Done"]
          /\ result' = [result EXCEPT ![i] = Ok]
       \/ \E c \in ExportCauses :
            /\ outputRet' = [outputRet EXCEPT ![i] = c]
            /\ Fail(i, Err("Export", {}, c))
    /\ Step(i, "Export")
    /\ UNCHANGED << pureVars, since, loggerSet, loggerSetCount, args, errors, tryInit, drained,
                    bv, aabb, tolerance, tri_mesh, displayed >>

\* the viewer branch reached whether or not an export path was given
Display_unguarded(i) ==
    /\ pc[i] = "Output"
    /\ displayed' = [displayed EXCEPT ![i] = Some(tri_mesh[i][1])]
    /\ \/ /\ outputRet' = [outputRet EXCEPT ![i] = "Ok"]
          /\ pc' = [pc EXCEPT ![i] = "Done"]
          /\ result' = [result EXCEPT ![i] = Ok]
       \/ \E c \in ViewerCauses :
            /\ outputRet' = [outputRet EXCEPT ![i] = c]
            /\ Fail(i, Err("Display", {}, c))
    /\ Step(i, "Display")
    /\ UNCHANGED << pureVars, since, loggerSet, loggerSetCount, args, errors, tryInit, drained,
                    bv, aabb, tolerance, tri_mesh, exported >>

\* make_viewer_and_spawn_thread(|viewer| viewer.display_model(tri_mesh))?; Ok(())
Display(i) ==
    /\ pc[i] = "Output"
    /\ args[i].export = None
    /\ displayed' = [displayed EXCEPT ![i] = Some(tri_mesh[i][1])]
    /\ \/ /\ outputRet' = [outputRet EXCEPT ![i] = "Ok"]
          /\ pc' = [pc EXCEPT ![i] = "Done"]
          /\ result' = [result EXCEPT ![i] = Ok]
       \/ \E c \in ViewerCauses :
            /\ outputRet' = [outputRet EXCEPT ![i] = c]
            /\ Fail(i, Err("Display", {}, c))
    /\ Step(i, "Display")
    /\ UNCHANGED << pureVars, since, loggerSet, loggerSetCount, args, errors, tryInit, drained,
                    bv, aabb, tolerance, tri_mesh, exported >>

\* ----------------------------------------------- tolerance parsing, action

\* parse_tolerance(input)
ParseTolerance ==
    /\ parsed = NoParse
    /\ parsed' = parse_tolerance(input)
    /\ UNCHANGED << runVars, input, fmtVars, cliVars >>

\* ------------------------------------------------- error reporting, actions

\* fmt with the counter started at 1
FmtBegin_from_one ==
    /\ fpc = "begin"
    /\ fsource' = SourceChain(err)
    /\ fout' = IF SourceChain(err) # << >>
                   THEN << MessageLine(err), HeaderLine >>
                   ELSE << MessageLine(err) >>
    /\ fidx' = 1
    /\ fpc' = "loop"
    /\ UNCHANGED << runVars, parseVars, err, cliVars >>

\* write!(f, "{self}"); let mut source = self.source(); the header; let mut i = 0
FmtBegin ==
    /\ fpc = "begin"
    /\ fsource' = SourceChain(err)
    /\ fout' = IF SourceChain(err) # << >>
                   THEN << MessageLine(err), HeaderLine >>
                   ELSE << MessageLine(err) >>
    /\ fidx' = 0
    /\ fpc' = "loop"
    /\ UNCHANGED << runVars, parseVars, err, cliVars >>

\* one iteration of while let Some(s) = source
FmtLoop ==
    /\ fpc = "loop"
    /\ fsource # << >>
    /\ fout' = Append(fout, CauseLine(fidx, Head(fsource)))
    /\ fsource' = Tail(fsource)
    /\ fidx' = fidx + 1
    /\ UNCHANGED << runVars, parseVars, err, fpc, cliVars >>

\* source is None: Ok(())
FmtEnd ==
    /\ fpc = "loop"
    /\ fsource = << >>
    /\ fpc' = "done"
    /\ UNCHANGED << runVars, parseVars, err, fout, fsource, fidx, cliVars >>

\* -------------------------------------------------- command line, actions

ArgsPending == cliResult = "Pending" /\ apos <= Len(argv)

ArgsFail ==
    /\ cliResult' = "Error"
    /\ UNCHANGED << argv, apos, cli >>

\* --export that also switches validation off
ArgsExport_sets_flag(repeat) ==
    /\ ArgsPending
    /\ argv[apos] \in ExportFlags
    /\ IF ~HasValue(argv, apos) \/ (cli.export # None /\ repeat = "reject")
           THEN ArgsFail
           ELSE /\ cli' = [cli EXCEPT !.export = Some(argv[apos + 1]),
                                      !.ignore_validation = TRUE]
                /\ apos' = apos + 2
                /\ UNCHANGED << argv, cliResult >>
    /\ UNCHANGED << runVars, parseVars, fmtVars >>

\* export: Option<PathBuf>, #[arg(short, long)]
ArgsExport(repeat) ==
    /\ ArgsPending
    /\ argv[apos] \in ExportFlags
    /\ IF ~HasValue(argv, apos) \/ (cli.export # None /\ repeat = "reject")
           THEN ArgsFail
           ELSE /\ cli' = [cli EXCEPT !.export = Some(argv[apos + 1])]
                /\ apos' = apos + 2
                /\ UNCHANGED << argv, cliResult >>
    /\ UNCHANGED << runVars, parseVars, fmtVars >>

\* tolerance: Option<Tolerance>, #[arg(short, long, value_parser = parse_tolerance)]
ArgsTolerance(repeat) ==
    /\ ArgsPending
    /\ argv[apos] \in ToleranceFlags
    /\ IF ~HasValue(argv, apos) \/ (cli.tolerance # None /\ repeat = "reject")
           THEN ArgsFail
           ELSE LET r == parse_tolerance(TokenText(argv[apos + 1]))
                IN  IF r.variant # "Ok"
                        THEN ArgsFail
                        ELSE /\ cli' = [cli EXCEPT !.tolerance = Some(r.value)]
                             /\ apos' = apos + 2
                             /\ UNCHANGED << argv, cliResult >>
    /\ UNCHANGED << runVars, parseVars, fmtVars >>

\* ignore_validation: bool, #[arg(short, long)]
ArgsIgnoreValidation(repeat) ==
    /\ ArgsPending
    /\ argv[apos] \in IgnoreValidationFlags
    /\ IF cli.ignore_validation /\ repeat = "reject"
           THEN ArgsFail
           ELSE /\ cli' = [cli EXCEPT !.ignore_validation = TRUE]
                /\ apos' = apos + 1
                /\ UNCHANGED << argv, cliResult >>
    /\ UNCHANGED << runVars, parseVars, fmtVars >>

\* a word that is no declared flag: Args has no positional and no other option
ArgsReject ==
    /\ ArgsPending
    /\ argv[apos] \notin ExportFlags \cup ToleranceFlags \cup IgnoreValidationFlags
    /\ ArgsFail
    /\ UNCHANGED << runVars, parseVars, fmtVars >>

\* every word consumed: the Args value is returned
ArgsFinish ==
    /\ cliResult = "Pending"
    /\ apos > Len(argv)
    /\ cliResult' = "Ok"
    /\ UNCHANGED << runVars, parseVars, fmtVars, argv, apos, cli >>

\* ---------------------------------------------------------- specifications

\* Args parsed from every command line of at most MaxArgs words
InitArgs ==
    /\ InitRun
    /\ InitParseIdle
    /\ InitFmtIdle
    /\ argv \in CommandLines
    /\ apos = 1
    /\ cli = DefaultArgs
    /\ cliResult = "Pending"

NextArgs ==
    \/ \E repeat \in RepeatPolicies :
          \/ ArgsExport(repeat)
          \/ ArgsTolerance(repeat)
          \/ ArgsIgnoreValidation(repeat)
    \/ ArgsReject
    \/ ArgsFinish

SpecArgs == InitArgs /\ [][NextArgs]_vars


\* Debug::fmt on every Error with a cause chain of at most MaxChain
InitFmt ==
    /\ InitRun
    /\ InitParseIdle
    /\ err \in ErrorValues
    /\ fout = << >>
    /\ fsource = << >>
    /\ fidx = 0
    /\ fpc = "begin"
    /\ InitCliIdle

NextFmt == FmtBegin \/ FmtLoop \/ FmtEnd

SpecFmt == InitFmt /\ [][NextFmt]_vars


\* parse_tolerance on every text of at most MaxLen characters
InitParse ==
    /\ InitRun
    /\ input \in Texts
    /\ parsed = NoParse
    /\ InitFmtIdle
    /\ InitCliIdle

NextParse == ParseTolerance

SpecParse == InitParse /\ [][NextParse]_vars


\* one instance, every model and every Args
Next ==
    \E i \in { 1 } :
        \/ RecordValidationError(i, ErrorIds)
        \/ Call(i, ArgsSet)
        \/ LoggerInit(i)
        \/ ValidationGate(i)
        \/ BoundsQuery(i, Boxes)
        \/ ToleranceDerive(i)
        \/ Triangulate(i)
        \/ Export(i)
        \/ Display(i)

Spec == Init /\ [][Next]_vars

\* a run once entered executes its steps to the end: the body of
\* process_model_with_args is straight-line synchronous code
RunStep(i) ==
    \/ LoggerInit(i)
    \/ ValidationGate(i)
    \/ BoundsQuery(i, Boxes)
    \/ ToleranceDerive(i)
    \/ Triangulate(i)
    \/ Export(i)
    \/ Display(i)

FairSpec == Spec /\ WF_vars(RunStep(1))

\* several instances of one process, their runs interleaved step by step
NextConc ==
    \E i \in Instances :
        \/ RecordValidationError(i, { 1 })
        \/ Call(i, ArgsSmall)
        \/ LoggerInit(i)
        \/ ValidationGate(i)
        \/ BoundsQuery(i, {})
        \/ ToleranceDerive(i)
        \/ Triangulate(i)
        \/ Export(i)
        \/ Display(i)

SpecConc == Init /\ [][NextConc]_vars

\* ------------------------------------------------------------------ claims

Range(seq) == { seq[k] : k \in 1 .. Len(seq) }

Count(seq, name) == Cardinality({ k \in 1 .. Len(seq) : seq[k] = name })

GeometrySteps == { "BoundsQuery", "ToleranceDerive", "Triangulate", "Export", "Display" }

\* no collaborator after the validation gate has been touched in the run of i
NoGeometryWork(i) ==
    /\ Range(trace[i]) \cap GeometrySteps = {}
    /\ bv[i] = None
    /\ aabb[i] = None
    /\ tolerance[i] = NoTolerance
    /\ tri_mesh[i] = None
    /\ exported[i] = None
    /\ displayed[i] = None
    /\ outputRet[i] = "None"

\* C1: with ignore_validation = false and accumulated validation errors, the
\* gate drains them and the run fails with Error::Validation carrying them;
\* the bounding-volume query, tolerance derivation, triangulation, export and
\* viewer are never invoked in that run.
C1_ValidationAbortsBeforeGeometry ==
    \A i \in Instances :
        ~args[i].ignore_validation =>
            /\ (pc[i] \notin Resting /\ errors[i] # {}) => NoGeometryWork(i)
            /\ drained[i] # {} =>
                /\ NoGeometryWork(i)
                /\ pc[i] = "Failed"
                /\ result[i] = Err("Validation", drained[i], "")

C1_Witness ==
    \E i \in Instances :
        /\ ~args[i].ignore_validation
        /\ drained[i] # {}
        /\ pc[i] = "Failed"
        /\ result[i].variant = "Validation"

\* the two complete step sequences of a run
ExportOrder ==
    << "LoggerInit", "ValidationGate", "BoundsQuery", "ToleranceDerive",
       "Triangulate", "Export" >>
DisplayOrder ==
    << "LoggerInit", "ValidationGate", "BoundsQuery", "ToleranceDerive",
       "Triangulate", "Display" >>

IsPrefix(s, t) == Len(s) <= Len(t) /\ \A k \in 1 .. Len(s) : s[k] = t[k]

LastStep(i) == IF trace[i] = << >> THEN "None" ELSE trace[i][Len(trace[i])]

\* the steps of the run of i were taken in the fixed order, each at most once
InOrder(i) == IsPrefix(trace[i], ExportOrder) \/ IsPrefix(trace[i], DisplayOrder)

\* the run of i stopped at step name and returned the error variant v
StoppedAt(i, name, v) ==
    /\ pc[i] = "Failed"
    /\ LastStep(i) = name
    /\ result[i].variant = v

\* every step after logger initialisation fails fast
FailFastAfterLogger(i) ==
    /\ drained[i] # {} => StoppedAt(i, "ValidationGate", "Validation")
    /\ tolerance[i].variant \notin { "Pending", "Ok" } =>
           StoppedAt(i, "ToleranceDerive", tolerance[i].variant)
    /\ outputRet[i] \in ExportCauses => StoppedAt(i, "Export", "Export")
    /\ outputRet[i] \in ViewerCauses => StoppedAt(i, "Display", "Display")
    /\ pc[i] = "Failed" => result[i].variant \notin { "Ok", "Pending" }
    /\ pc[i] = "Done" => result[i] = Ok /\ LastStep(i) \in { "Export", "Display" }

\* C2: the steps of a run happen in the order LoggerInit, ValidationGate,
\* BoundsQuery, ToleranceDerive, Triangulate, then Export or Display, each at
\* most once; once a step has failed no later step is taken and the run ends
\* in Failed with that step's error.
C2_FixedOrderFailFast ==
    \A i \in Instances :
        /\ InOrder(i)
        /\ tryInit[i] = "Failed" => StoppedAt(i, "LoggerInit", "Tracing")
        /\ FailFastAfterLogger(i)

\* the part of C2 that holds of the code: order, and fail-fast from the gate on
C2_OrderAndFailFastFromGate ==
    \A i \in Instances : InOrder(i) /\ FailFastAfterLogger(i)

\* C3: past triangulation exactly one output collaborator is invoked: with an
\* export path the exporter gets the triangles and the path, its result is the
\* result of the run and the viewer is never invoked; without one the viewer
\* gets the mesh and the exporter is never invoked.
C3_ExactlyOneOutput ==
    \A i \in Instances :
        "Triangulate" \in Range(trace[i]) =>
            IF args[i].export # None
                THEN /\ displayed[i] = None
                     /\ "Display" \notin Range(trace[i])
                     /\ pc[i] \in Terminal =>
                            /\ Count(trace[i], "Export") = 1
                            /\ exported[i] =
                                   Some([triangles |-> all_triangles(tri_mesh[i][1]),
                                         path |-> args[i].export[1]])
                            /\ result[i] = IF outputRet[i] = "Ok"
                                               THEN Ok
                                               ELSE Err("Export", {}, outputRet[i])
                            /\ outputRet[i] \in { "Ok" } \cup ExportCauses
                ELSE /\ exported[i] = None
                     /\ "Export" \notin Range(trace[i])
                     /\ pc[i] \in Terminal =>
                            /\ Count(trace[i], "Display") = 1
                            /\ displayed[i] = Some(tri_mesh[i][1])
                            /\ result[i] = IF outputRet[i] = "Ok"
                                               THEN Ok
                                               ELSE Err("Display", {}, outputRet[i])
                            /\ outputRet[i] \in { "Ok" } \cup ViewerCauses

C3_Witness ==
    \E i \in Instances :
        /\ args[i].export # None
        /\ pc[i] = "Failed"
        /\ exported[i] # None
        /\ result[i].variant = "Export"
        /\ displayed[i] = None

\* C4: only the already-initialised outcome of logger initialisation is taken
\* as success; a failure for any other reason ends the run in Failed with
\* Error::Tracing and no later step is executed.
C4_OtherLoggerFailureIsFatal ==
    \A i \in Instances :
        /\ tryInit[i] = "AlreadySet" => result[i].variant # "Tracing"
        /\ tryInit[i] = "Failed" => StoppedAt(i, "LoggerInit", "Tracing")

\* C5: once the global logger is set, every init_logger call returns success
\* and its run goes on to the validation gate, in any interleaving of the runs
\* of one process; the global logger is set at most once and logger
\* initialisation is not retried within a run.
C5_LoggerInitIdempotent ==
    /\ [](loggerSetCount <= 1)
    /\ [](\A i \in Instances : Count(trace[i], "LoggerInit") <= 1)
    /\ [][ \A i \in Instances :
             (loggerSet /\ pc[i] = "LoggerInit" /\ pc'[i] # "LoggerInit") =>
                 /\ pc'[i] = "ValidationGate"
                 /\ result'[i] = Pending
                 /\ tryInit'[i] = "AlreadySet"
                 /\ loggerSet'
                 /\ loggerSetCount' = loggerSetCount ]_vars

C5_Witness ==
    \E i, j \in Instances :
        /\ i # j
        /\ tryInit[i] = "Ok"
        /\ pc[i] \notin Resting
        /\ tryInit[j] = "AlreadySet"
        /\ pc[j] = "ValidationGate"

\* the run of i has executed the tolerance derivation
Derived(i) == "ToleranceDerive" \in Range(trace[i])

Extents(i) == Size(aabb[i][1])

HasPositiveExtent(i) == \E k \in 1 .. 3 : Extents(i)[k] > 0

\* the least strictly positive extent of the box of i
MinPositiveExtent(i) ==
    CHOOSE m \in { Extents(i)[k] : k \in 1 .. 3 } :
        /\ m > 0
        /\ \A k \in 1 .. 3 : Extents(i)[k] > 0 => m <= Extents(i)[k]

\* C6: for every AABB with at least one strictly positive extent and no user
\* tolerance, compute_tolerance succeeds with the minimum strictly positive
\* extent divided by 1000, zero extents being skipped, and the value is > 0.
C6_MinPositiveExtentOverThousand ==
    \A i \in Instances :
        (Derived(i) /\ args[i].tolerance = None /\ HasPositiveExtent(i)) =>
            /\ tolerance[i].variant = "Ok"
            /\ tolerance[i].value = ScalarDiv(MinPositiveExtent(i), ToleranceDivisor)
            /\ tolerance[i].value > 0

\* C7: with no user tolerance, compute_tolerance fails with EmptyModel if and
\* only if no axis of the AABB has a strictly positive extent.
C7_EmptyModelIffNoPositiveExtent ==
    \A i \in Instances :
        (Derived(i) /\ args[i].tolerance = None) =>
            (tolerance[i].variant = "EmptyModel" <=> ~HasPositiveExtent(i))

\* C8: with a user-supplied tolerance T, compute_tolerance returns exactly T
\* and never an error, whatever the AABB, degenerate ones included.
C8_UserToleranceWins ==
    \A i \in Instances :
        (Derived(i) /\ args[i].tolerance # None) =>
            /\ tolerance[i] = [variant |-> "Ok", value |-> args[i].tolerance[1]]
            /\ result[i].variant \notin { "EmptyModel", "Tolerance" }

C8_Witness ==
    \E i \in Instances :
        /\ Derived(i)
        /\ args[i].tolerance = Some(2)
        /\ ~HasPositiveExtent(i)
        /\ bv[i] # Some(None)
        /\ tolerance[i].value = 2

\* C9: when the model yields no bounding volume the run uses the AABB with
\* min = max = origin; with no explicit tolerance the run fails with
\* EmptyModel and triangulator, exporter and viewer are never invoked; with an
\* explicit tolerance T the run goes on and triangulation is invoked with T.
C9_NoBoundingVolumeIsDegenerate ==
    \A i \in Instances :
        bv[i] = Some(None) =>
            /\ aabb[i] = Some([min |-> Origin, max |-> Origin])
            /\ Derived(i) =>
                   IF args[i].tolerance = None
                       THEN /\ pc[i] = "Failed"
                            /\ result[i] = Err("EmptyModel", {}, "")
                            /\ Range(trace[i]) \cap { "Triangulate", "Export", "Display" } = {}
                            /\ tri_mesh[i] = None
                            /\ exported[i] = None
                            /\ displayed[i] = None
                       ELSE /\ result[i].variant \notin { "EmptyModel", "Tolerance" }
                            /\ pc[i] = "Triangulate" \/ "Triangulate" \in Range(trace[i])
                            /\ "Triangulate" \in Range(trace[i]) =>
                                   tri_mesh[i] = Some([tolerance |-> args[i].tolerance[1]])

C9_Witness ==
    \E i \in Instances :
        /\ bv[i] = Some(None)
        /\ args[i].tolerance = None
        /\ pc[i] = "Failed"
        /\ result[i].variant = "EmptyModel"

\* C10: no error is swallowed except logger-already-initialised: the run
\* returns Ok only if every executed step succeeded, and each failure is
\* returned as the tagged variant of its step with the cause preserved.
C10_NoErrorSwallowed ==
    \A i \in Instances :
        /\ result[i] = Ok =>
               /\ tryInit[i] \in { "Ok", "AlreadySet" }
               /\ args[i].ignore_validation \/ drained[i] = {}
               /\ tolerance[i].variant = "Ok"
               /\ outputRet[i] = "Ok"
        /\ tryInit[i] = "Failed" => result[i].variant = "Tracing"
        /\ drained[i] # {} => result[i] = Err("Validation", drained[i], "")
        /\ tolerance[i].variant \in { "EmptyModel", "Tolerance" } =>
               result[i] = Err(tolerance[i].variant, {}, "")
        /\ outputRet[i] \in ExportCauses => result[i] = Err("Export", {}, outputRet[i])
        /\ outputRet[i] \in ViewerCauses => result[i] = Err("Display", {}, outputRet[i])

\* the part of C10 that holds of the code: every step from the gate on
C10_NoErrorSwallowedFromGate ==
    \A i \in Instances :
        /\ result[i] = Ok =>
               /\ args[i].ignore_validation \/ drained[i] = {}
               /\ tolerance[i].variant = "Ok"
               /\ outputRet[i] = "Ok"
        /\ drained[i] # {} => result[i] = Err("Validation", drained[i], "")
        /\ tolerance[i].variant \in { "EmptyModel", "Tolerance" } =>
               result[i] = Err(tolerance[i].variant, {}, "")
        /\ outputRet[i] \in ExportCauses => result[i] = Err("Export", {}, outputRet[i])
        /\ outputRet[i] \in ViewerCauses => result[i] = Err("Display", {}, outputRet[i])

\* the model of the run of i returned a box with three strictly positive extents
NonDegenerate(i) ==
    /\ bv[i] # None
    /\ bv[i][1] # None
    /\ \A k \in 1 .. 3 : Extents(i)[k] > 0

\* the case of C11: display run, nothing pending, no override, real geometry
EndToEndCase(i) ==
    /\ pc[i] \notin { "Idle" }
    /\ args[i].export = None
    /\ args[i].tolerance = None
    /\ drained[i] = {}
    /\ result[i].variant # "Validation"
    /\ NonDegenerate(i)

\* C11: a run on a model with non-degenerate geometry, no export path, no
\* pending validation errors and no explicit tolerance passes every step
\* through triangulation and reaches the display branch; with the viewer
\* reporting success it ends in Done without error.
C11_EndToEndReachesDisplay ==
    \A i \in Instances :
        EndToEndCase(i) =>
            /\ pc[i] = "Failed" => outputRet[i] \in ViewerCauses
            /\ outputRet[i] = "Ok" =>
                   /\ pc[i] = "Done"
                   /\ result[i] = Ok
                   /\ displayed[i] = tri_mesh[i]
                   /\ trace[i] = DisplayOrder

\* the boxes whose least positive extent is inside the range the division
\* by 1000 keeps positive and the scan finds
WellScaled(i) ==
    /\ NonDegenerate(i)
    /\ \E k \in 1 .. 3 : Extents(i)[k] < ScalarMAX
    /\ ScalarDiv(MinPositiveExtent(i), ToleranceDivisor) > 0

\* the part of C11 that holds of the code: the same for well-scaled boxes
C11_EndToEndWellScaled ==
    \A i \in Instances :
        (EndToEndCase(i) /\ WellScaled(i)) =>
            /\ pc[i] = "Failed" => outputRet[i] \in ViewerCauses
            /\ outputRet[i] = "Ok" =>
                   /\ pc[i] = "Done"
                   /\ result[i] = Ok
                   /\ displayed[i] = tri_mesh[i]
                   /\ trace[i] = DisplayOrder

\* under FairSpec every run that was entered comes to an end
C11_RunEnds == \A i \in { 1 } : (pc[i] \notin Resting) ~> (pc[i] \in Terminal)

\* C16: the triangulator is invoked only after tolerance derivation has
\* succeeded and only with a tolerance > 0, user-supplied or computed.
C16_TriangulateWithPositiveTolerance ==
    \A i \in Instances :
        (pc[i] = "Triangulate" \/ "Triangulate" \in Range(trace[i]) \/ tri_mesh[i] # None) =>
            /\ Derived(i)
            /\ tolerance[i].variant = "Ok"
            /\ tolerance[i].value > 0
            /\ tri_mesh[i] # None => tri_mesh[i][1].tolerance = tolerance[i].value
            /\ args[i].tolerance # None => tolerance[i].value = args[i].tolerance[1]

C16_Witness ==
    \E i \in Instances :
        /\ args[i].tolerance = None
        /\ tri_mesh[i] # None
        /\ tri_mesh[i][1].tolerance > 0

\* C17: with ignore_validation set the gate is skipped: it leaves the
\* accumulated validation errors unchanged, takes none of them, and the run
\* never ends in Failed(Validation), whatever errors are pending.
C17_IgnoreValidationSkipsGate ==
    /\ [](\A i \in Instances :
            args[i].ignore_validation =>
                /\ drained[i] = {}
                /\ result[i].variant # "Validation")
    /\ [][ \A i \in Instances :
             (args[i].ignore_validation /\ pc[i] = "ValidationGate"
                  /\ pc'[i] # "ValidationGate") =>
                 /\ errors'[i] = errors[i]
                 /\ pc'[i] = "BoundsQuery" ]_vars

C17_Witness ==
    \E i \in Instances :
        /\ args[i].ignore_validation
        /\ errors[i] # {}
        /\ "ValidationGate" \in Range(trace[i])
        /\ pc[i] = "Done"

\* C18: the gate consumes the accumulated errors even when it fails: after a
\* run ends in Failed(Validation) the errors of the instance are empty, and a
\* run that follows on the same instance with no error recorded in between
\* passes the validation gate.
C18_FailedGateConsumesErrors ==
    \A i \in Instances :
        /\ (pc[i] = "Failed" /\ result[i].variant = "Validation"
                /\ since[i] # "recorded") => errors[i] = {}
        /\ (since[i] = "follows" /\ "ValidationGate" \in Range(trace[i])) =>
               /\ drained[i] = {}
               /\ result[i].variant # "Validation"
               /\ pc[i] = "BoundsQuery" \/ "BoundsQuery" \in Range(trace[i])

C18_Witness ==
    \E i \in Instances :
        /\ since[i] = "follows"
        /\ ~args[i].ignore_validation
        /\ pc[i] = "BoundsQuery"

\* the text without its sign
Unsigned(t) == IF t # << >> /\ t[1] = "-" THEN Tail(t) ELSE t

\* t is a decimal numeral: digits with at most one point and at least one digit
IsRealText(t) ==
    LET b == Unsigned(t)
    IN  /\ \A k \in 1 .. Len(b) : b[k] \in Digits \cup { "." }
        /\ Cardinality({ k \in 1 .. Len(b) : b[k] = "." }) <= 1
        /\ \E k \in 1 .. Len(b) : b[k] \in Digits

\* t spells NaN, with or without a sign
IsNaNText(t) == Lower(Unsigned(t)) = << "n", "a", "n" >>

\* the position of the point of b, Len(b) + 1 without one
PointAt(b) ==
    IF \E k \in 1 .. Len(b) : b[k] = "."
        THEN CHOOSE k \in 1 .. Len(b) : b[k] = "."
        ELSE Len(b) + 1

\* the weight, in 1/FracScale, of the digit at position k of b
PlaceValue(b, k) ==
    IF k < PointAt(b)
        THEN FracScale * 10 ^ (PointAt(b) - 1 - k)
        ELSE FracScale \div 10 ^ (k - PointAt(b))

RECURSIVE DigitSum(_, _)
DigitSum(b, k) ==
    IF k > Len(b) THEN 0
    ELSE (IF b[k] \in Digits THEN DigitValue(b[k]) * PlaceValue(b, k) ELSE 0)
             + DigitSum(b, k + 1)

\* the number a decimal numeral denotes, in 1/FracScale
RealValue(t) ==
    IF t # << >> /\ t[1] = "-"
        THEN 0 - DigitSum(Unsigned(t), 1)
        ELSE DigitSum(Unsigned(t), 1)

\* C12: parse_tolerance has two ordered stages: a text the numeric parser
\* rejects gives ParseTolerance and the positivity check is not reached; a
\* text denoting a value <= 0 gives InvalidTolerance; a text denoting a value
\* > 0 gives a Tolerance of exactly that value ("abc", "-1", "0.01").
C12_ParseToleranceTwoStages ==
    parsed # NoParse =>
        /\ (~IsRealText(input) /\ ~IsNaNText(input)) =>
               parsed = [variant |-> "ParseTolerance", value |-> 0, stage |-> 1]
        /\ (IsRealText(input) /\ RealValue(input) <= 0) =>
               parsed = [variant |-> "InvalidTolerance", value |-> 0, stage |-> 2]
        /\ (IsRealText(input) /\ RealValue(input) > 0) =>
               parsed = [variant |-> "Ok", value |-> RealValue(input), stage |-> 2]
        /\ input = << "a", "b", "c" >> => parsed.variant = "ParseTolerance"
        /\ input = << "-", "1" >> => parsed.variant = "InvalidTolerance"
        /\ input = << "0", ".", "0", "1" >> =>
               parsed = [variant |-> "Ok", value |-> FracScale \div 100, stage |-> 2]

C12_Witness ==
    /\ input = << "-", "1" >>
    /\ parsed.variant = "InvalidTolerance"
    /\ parsed.stage = 2

C14_ReportWalksCauseChain ==
    /\ [](fpc = "done" =>
            LET chain == SourceChain(err)
                n == Len(chain)
                lead == IF n >= 1 THEN 2 ELSE 1
            IN  /\ fout[1] = MessageLine(err)
                /\ (n >= 1) <=> (\E k \in 1 .. Len(fout) : fout[k] = HeaderLine)
                /\ n >= 1 => fout[2] = HeaderLine
                /\ Cardinality({ k \in 1 .. Len(fout) : fout[k].kind = "header" }) <= 1
                /\ Cardinality({ k \in 1 .. Len(fout) : fout[k].kind = "message" }) = 1
                /\ Len(fout) = lead + n
                /\ \A k \in 1 .. n : fout[lead + k] = CauseLine(k - 1, chain[k])
                /\ fsource = << >>)
    /\ [][err' = err]_vars

C14_Witness ==
    /\ fpc = "done"
    /\ err.variant = "Validation"
    /\ Len(SourceChain(err)) = 2
    /\ Len(fout) = 4

Given(flags) == \E k \in 1 .. Len(argv) : argv[k] \in flags

\* C15: a successful parse sets exactly the fields whose flags are on the
\* command line and leaves the others at their defaults; --export foo.step,
\* --ignore-validation and --tolerance 0.01 each parse and set only their
\* own field.
C15_ParsingSetsOnlyGivenFields ==
    /\ cliResult = "Ok" =>
           /\ (cli.export # None) <=> Given(ExportFlags)
           /\ (cli.tolerance # None) <=> Given(ToleranceFlags)
           /\ cli.ignore_validation <=> Given(IgnoreValidationFlags)
    /\ (cliResult # "Pending" /\ argv = << "--export", "foo.step" >>) =>
           /\ cliResult = "Ok"
           /\ cli = [DefaultArgs EXCEPT !.export = Some("foo.step")]
    /\ (cliResult # "Pending" /\ argv = << "--ignore-validation" >>) =>
           /\ cliResult = "Ok"
           /\ cli = [DefaultArgs EXCEPT !.ignore_validation = TRUE]
    /\ (cliResult # "Pending" /\ argv = << "--tolerance", "0.01" >>) =>
           /\ cliResult = "Ok"
           /\ cli.tolerance # None
           /\ cli.export = None
           /\ ~cli.ignore_validation

C15_Witness ==
    /\ cliResult = "Ok"
    /\ argv = << "--export", "foo.step" >>
    /\ cli.export = Some("foo.step")
    /\ cli.tolerance = None
    /\ ~cli.ignore_validation

====
